---------------------------- MODULE Spec2Model ----------------------------
(***************************************************************************)
(* A model of kiwibot's message routing core:                              *)
(*   - MessageRouter (src/kiwibot/conn_router.py): the dispatch loop, the  *)
(*     registry of timed events and the timer threads;                     *)
(*   - FeishuPortal (src/kiwibot/conn_lark.py): the two queues, the        *)
(*     transport listener callback, the sending thread and the log file.   *)
(* Every thread of the program is a process of the model; a statement that *)
(* another thread can observe half-done is split into its steps.           *)
(***************************************************************************)
EXTENDS Integers, Sequences, FiniteSets, TLC

\* ------------------------------------------------------------------ bounds
\* Number of inbound messages the transport delivers.
MaxMsgs == 2
\* Number of register_timed_event calls (timer threads ever started).
MaxTimers == 2
\* Total number of intervals that elapse, over all timers.
MaxTicks == 2
\* Number of calls of the MessageDealer's methods.
MaxCalls == 3
\* Number of messages written to the log file before it is replayed.
MaxLogged == 3

\* The workloads that are explored: what the environment does in one run
\* (events delivered by the transport, timed events registered, intervals
\* that elapse). Messages alone, timers alone, and one message together
\* with one timer.
Workloads ==
    { [msgs |-> MaxMsgs, timers |-> 0, ticks |-> 0],
      [msgs |-> 0, timers |-> MaxTimers, ticks |-> MaxTicks],
      [msgs |-> 1, timers |-> 1, ticks |-> MaxTicks] }

\* ------------------------------------------------------------- data model
\* Python's None.
None == "<None>"
\* The outcome of a call that raised.
Raise == "<raise>"
\* The message_id of a message that has no message_id key (the ids the
\* platform gives are 1, 2, ...).
NoId == 0
\* A local variable that holds no message.
NoMsg == [chat_type |-> "", chat_id |-> "", message_id |-> NoId,
          sender_id |-> "", text |-> None]

\* A chat has one type: chat "oc_p" is a direct chat, chat "oc_g" a group.
Chats == {"oc_p", "oc_g"}
ChatType(c) == IF c = "oc_p" THEN "p2p" ELSE "group"

\* The action strings a caller registers timed events with.
Actions == {"time", "ping"}

\* The callables that can be installed as message_dealer: the default
\* lambda of __init__, and any other callable (it may return a text, return
\* None or raise).
Dealers == {"echo", "custom"}

\* FeishuPortal.get_pack_msg: the canonical record of the n-th event.
get_pack_msg(n, c) ==
    [chat_type |-> ChatType(c), chat_id |-> c, message_id |-> n,
     sender_id |-> "ou_user", text |-> "hi"]

\* The message literal of register_timed_event: it has no message_id key.
timer_message(action_string) ==
    [chat_type |-> "p2p", chat_id |-> "oc_11b1", message_id |-> NoId,
     sender_id |-> "ou_0b2a", text |-> action_string]

\* The default message_dealer: lambda x: f"Received: {x}".
Echo(x) == "Received: " \o x

\* What a call of dealer d on text x can produce.
DealerOutcomes(d, x) ==
    IF d = "echo" THEN {Echo(x)} ELSE {"ai", None, Raise}

\* MessageRouter._action_then_response: a deep copy of msg whose text is the
\* current time when the action is 'time'.
action_then_response(m) ==
    IF m.text = "time" THEN [m EXCEPT !.text = "Time now"] ELSE m

\* MessageRouter._single_response, once the dealer has returned r: a deep
\* copy of msg with the text replaced by r.
single_response(m, r) == [m EXCEPT !.text = r]

\* A put that pushes on the front: the queue would be a stack.
queue_put_lifo(q, m) == <<m>> \o q

\* queue.Queue.put and queue.Queue.get: first in, first out.
queue_put(q, m) == Append(q, m)
queue_head(q) == Head(q)
queue_rest(q) == Tail(q)

\* The dict timed_events, as the sequence of its items in insertion order.
dict_has(d, key) == \E i \in 1..Len(d) : d[i].key = key
dict_index(d, key) == CHOOSE i \in 1..Len(d) : d[i].key = key
dict_get(d, key) == d[dict_index(d, key)]
\* d[key] = value: an existing key keeps its place.
dict_set(d, key, message, ev) ==
    LET item == [key |-> key, message |-> message, event |-> ev]
    IN  IF dict_has(d, key)
        THEN [d EXCEPT ![dict_index(d, key)] = item]
        ELSE Append(d, item)
\* del d[key]
dict_del(d, key) ==
    LET i == dict_index(d, key)
    IN  SubSeq(d, 1, i - 1) \o SubSeq(d, i + 1, Len(d))
\* list(d.keys())
dict_keys(d) == [i \in 1..Len(d) |-> d[i].key]

\* FeishuPortal._log_communication, the write under the lock: one JSON
\* object appended to the end of the file.
log_write(l, m) == Append(l, m)


VARIABLES
    \* MessageRouter fields
    recv_queue, send_queue, timed_events, running, timer_id_counter,
    message_dealer,
    \* the dispatch thread (MessageRouter.run): position and locals
    rpc, msg, dealer_call, response,
    \* the timer threads (_timed_event_handler), by order of creation
    tpc, tmsg, event, nevt, nticks,
    \* history: the timers whose wait has timed out at least once
    elapsed,
    \* FeishuPortal: log file, its lock, what the transport was handed
    log, lock, handed,
    \* the sending thread (send_from_queue): position
    spc,
    \* the transport listener (_on_message_received): position and local
    lpc, lmsg, nrecv,
    \* the thread that calls the router's public methods: position, the
    \* list stop() iterates over, whether a call ended with an exception
    cpc, ctodo, cerr,
    \* history: every message put on send_queue, and the message_id of
    \* every message the dispatch loop dequeued, in order
    enq_hist, dispatched,
    \* the workload of this run
    quota,
    \* MessageDealer fields: chat_history (a dict from chat_id to the list of
    \* the chat's messages) and tool_dict
    chat_history, tool_dict,
    \* a call of a MessageDealer method: position, which method, its
    \* arguments (msg_json, max_num), and what it computed: the value of
    \* is_need_to_reply, the history window, how the call ended ("-" while it
    \* has not, "none", "reply", "raise", "window") and the value returned
    dpc, dop, dmsg, dmax, dneed, dwin, dout, dret,
    \* number of calls made
    ncalls,
    \* the list of (role, text) that deal_message passes to llm.invoke
    dmessages,
    \* the threads that are inside a call of message_dealer
    in_call,
    \* the text of the log file, and the local msg of send_from_queue
    log_file, smsg,
    \* the threads that call register_timed_event: position, the locals
    \* timer_id and event, the value read by the += of the counter; and,
    \* history, the handles that calls have returned, in order
    gpc, gid, gev, gtmp, returned,
    \* history: the number of messages the dispatch loop had dequeued when
    \* stop() was first called, <<>> until then
    stop_mark

vars == <<recv_queue, send_queue, timed_events, running, timer_id_counter,
          message_dealer, rpc, msg, dealer_call, response,
          tpc, tmsg, event, nevt, nticks, log, lock, handed, spc,
          lpc, lmsg, nrecv, cpc, ctodo, cerr, enq_hist, dispatched, quota,
          elapsed, chat_history, tool_dict, dpc, dop, dmsg, dmax, dneed, dwin,
          dout, dret, ncalls, dmessages, in_call, log_file, smsg,
          gpc, gid, gev, gtmp, returned, stop_mark>>

routerObj == <<recv_queue, send_queue, timed_events, running,
               timer_id_counter, message_dealer>>
routerThr == <<rpc, msg, dealer_call, response, in_call>>
timerThr  == <<tpc, tmsg, event, nevt, nticks, elapsed>>
portalObj == <<log, lock, handed>>
senderThr == <<spc>>
listenThr == <<lpc, lmsg, nrecv>>
callerThr == <<cpc, ctodo, cerr>>
history   == <<enq_hist, dispatched>>
dealerObj == <<chat_history, tool_dict>>
dealerThr == <<dpc, dop, dmsg, dmax, dneed, dwin, dout, dret, ncalls,
               dmessages>>
fileObj   == <<log_file>>
sendLocal == <<smsg>>
regThr    == <<gpc, gid, gev, gtmp, returned>>

\* The threads that call register_timed_event.
Registrars == {"a", "b"}

TimerIds == 1..MaxTimers

\* MessageRouter.__init__ and FeishuPortal.__init__: the sending thread and
\* the listener are started by the portal's constructor, the dispatch thread
\* is created and not yet started.
RouterInit ==
    /\ recv_queue = <<>> /\ send_queue = <<>>
    /\ timed_events = <<>>
    /\ running = TRUE
    /\ timer_id_counter = 0
    /\ message_dealer = "echo"
    /\ rpc = "created" /\ msg = NoMsg /\ dealer_call = None
    /\ in_call = {}
    /\ response = NoMsg
    /\ tpc = [k \in TimerIds |-> "none"]
    /\ tmsg = [k \in TimerIds |-> NoMsg]
    /\ event = [k \in TimerIds |-> FALSE]
    /\ nevt = 0 /\ nticks = 0 /\ elapsed = {}
    /\ log = <<>> /\ lock = "free" /\ handed = <<>>
    /\ log_file = <<>>
    /\ spc = "get" /\ smsg = NoMsg
    /\ gpc = [t \in Registrars |-> "idle"]
    /\ gid = [t \in Registrars |-> 0]
    /\ gev = [t \in Registrars |-> 0]
    /\ gtmp = [t \in Registrars |-> 0]
    /\ returned = <<>>
    /\ stop_mark = <<>>
    /\ lpc = "idle" /\ lmsg = NoMsg /\ nrecv = 0
    /\ cpc = "idle" /\ ctodo = <<>> /\ cerr = FALSE
    /\ enq_hist = <<>> /\ dispatched = <<>>

\* -------------------------------------------- MessageDealer (conn_cortex.py)
\* name = 'Kiwi'
BotName == "Kiwi"

\* The chats a dealer is given messages of: a direct chat, a group chat and
\* a chat of a third type.
DealerChats == Chats \cup {"oc_t"}
DealerChatType(c) == IF c \in Chats THEN ChatType(c) ELSE "topic_group"

\* The mentions of a message, as the list of their display names.
MentionLists == {<<>>, <<"Kiwi">>, <<"kiwi">>, <<"Bob", "Kiwi">>}

\* What tool_dict can be at construction: None (the default) or a dict
\* with a 'chattool'.
ToolDicts == {None, "tools"}

\* The msg_json a dealer is called with: the n-th message, of chat c, with
\* mentions ms.
msg_json(n, c, ms) ==
    [chat_type |-> DealerChatType(c), chat_id |-> c, message_id |-> n,
     sender_id |-> "ou_user", text |-> "hi", mentions |-> ms]

\* A variable that holds no msg_json.
NoJson == [chat_type |-> "", chat_id |-> "", message_id |-> NoId,
           sender_id |-> "", text |-> None, mentions |-> <<>>]

\* Python's True and False, as values that can stand next to None.
PyBool(b) == IF b THEN "True" ELSE "False"

\* conn_lark.is_at_user(msg_json, name): the name is the display name of the
\* first mention of the message.
is_at_user(m, name) ==
    PyBool(Len(m.mentions) > 0 /\ m.mentions[1] = name)

\* conn_lark.simple_msg_by(msg_json, name, content): the reply to msg_json
\* with text content, sent by name to the chat of msg_json; it is a threaded
\* reply, with the message_id of msg_json, when msg_json is a group message
\* that mentions the bot, and has no message_id otherwise.
simple_msg_by(m, name, content) ==
    [chat_type |-> m.chat_type, chat_id |-> m.chat_id,
     message_id |-> IF m.chat_type = "group" /\ is_at_user(m, name) = "True"
                    THEN m.message_id ELSE NoId,
     sender_id |-> name, text |-> content, mentions |-> <<>>]

\* A rule that asks for a mention in direct chats too.
is_need_to_reply_mention(m) ==
    IF m.chat_type \in {"p2p", "group"} THEN is_at_user(m, BotName) ELSE None

\* A rule that answers every group message.
is_need_to_reply_group(m) ==
    IF m.chat_type \in {"p2p", "group"} THEN "True" ELSE None

\* A rule whose last case is to reply.
is_need_to_reply_else(m) ==
    IF m.chat_type = "p2p" THEN "True"
    ELSE IF m.chat_type = "group" THEN is_at_user(m, BotName)
    ELSE "True"

\* MessageDealer.is_need_to_reply: True for a direct chat, is_at_user for a
\* group chat; for any other chat_type the function ends without a return
\* statement, which returns None.
is_need_to_reply(m) ==
    IF m.chat_type = "p2p" THEN "True"
    ELSE IF m.chat_type = "group" THEN is_at_user(m, BotName)
    ELSE None

\* Python's truth value of what is_need_to_reply returns.
Truthy(v) == v = "True"

\* An append that puts the message in front.
append_to_history_front(h, m) ==
    IF m.chat_id \in DOMAIN h
    THEN [h EXCEPT ![m.chat_id] = <<m>> \o @]
    ELSE h @@ (m.chat_id :> <<m>>)

\* An append to one list that every chat shares.
append_to_history_shared(h, m) ==
    [c \in DOMAIN h \cup {m.chat_id} |->
        IF c \in DOMAIN h THEN Append(h[c], m) ELSE <<m>>]

\* An append that starts the chat's list over with the new message.
append_to_history_reset(h, m) ==
    [c \in DOMAIN h \cup {m.chat_id} |->
        IF c = m.chat_id THEN <<m>> ELSE h[c]]

\* MessageDealer.append_to_history: the chat's list is created when the
\* chat_id is not a key, and the message is appended to it.
append_to_history(h, m) ==
    IF m.chat_id \in DOMAIN h
    THEN [h EXCEPT ![m.chat_id] = Append(@, m)]
    ELSE h @@ (m.chat_id :> <<m>>)

\* history[-3:]
HistoryWindow == 3

\* Python's s[-n:] for n > 0.
py_last(s, n) == SubSeq(s, IF Len(s) > n THEN Len(s) - n + 1 ELSE 1, Len(s))

\* A window of max_num messages.
get_history_content_max_num(h, m, max_num) ==
    IF m.chat_id \in DOMAIN h THEN py_last(h[m.chat_id], max_num) ELSE <<>>

\* MessageDealer.get_history_content(msg_json, max_num): the last 3 messages
\* of the chat, or [] when the chat_id is not a key; max_num is not used.
get_history_content(h, m, max_num) ==
    IF m.chat_id \in DOMAIN h THEN py_last(h[m.chat_id], HistoryWindow)
    ELSE <<>>

\* chattool.get_user_name / get_group_name behind gen_prompt, and
\* MessageDealer.gen_prompt: '' without tool_dict, else a sentence naming
\* the user of a direct chat or the group of a group chat.
gen_prompt(td, m) ==
    IF td = None THEN ""
    ELSE IF m.chat_type = "p2p" THEN "You are chatting with <user>."
    ELSE IF m.chat_type = "group"
         THEN "You are chatting in a group chat named <group>."
    ELSE None

\* chattool.get_plain_msg_text(msg): the text of the message.
get_plain_msg_text(m) == m.text

\* The role deal_message gives a past message: "ai" when its sender_id is
\* the bot's name, "human" otherwise.
past_role(m) == IF m.sender_id = BotName THEN "ai" ELSE "human"

\* A list in which every past message is the human's.
llm_messages_human(td, win, m) ==
    <<[role |-> "system", text |-> gen_prompt(td, m)]>>
    \o [i \in 1..Len(win) |->
           [role |-> "human", text |-> get_plain_msg_text(win[i])]]
    \o <<[role |-> "human", text |-> get_plain_msg_text(m)]>>

\* The list deal_message builds for llm.invoke: the system prompt, the
\* messages of the window with their roles, the text of msg_json.
llm_messages(td, win, m) ==
    <<[role |-> "system", text |-> gen_prompt(td, m)]>>
    \o [i \in 1..Len(win) |->
           [role |-> past_role(win[i]), text |-> get_plain_msg_text(win[i])]]
    \o <<[role |-> "human", text |-> get_plain_msg_text(m)]>>

\* MessageDealer.__init__(chat_database_path=None, tool_dict=td):
\* _get_historical_msg(None) returns {}.
MessageDealerInit(td) ==
    /\ chat_history = <<>>
    /\ tool_dict = td
    /\ dpc = "idle" /\ dop = "-" /\ dmsg = NoJson /\ dmax = 0
    /\ dneed = None /\ dwin = <<>> /\ dout = "-" /\ dret = NoJson
    /\ ncalls = 0
    /\ dmessages = <<>>

\* The router and the portal as constructed, in one of the workloads; the
\* dealer is constructed with the defaults.
Init ==
    /\ RouterInit
    /\ quota \in Workloads
    /\ MessageDealerInit(None)

\* ------------------------------------------------ MessageRouter.run thread
\* A loop that does not look at self.running: while True.
RunCheckAlways ==
    /\ rpc = "check"
    /\ rpc' = "get"
    /\ UNCHANGED <<quota, stop_mark, regThr, fileObj, sendLocal, dealerObj,
                   dealerThr, routerObj, msg, dealer_call, in_call, response,
                   timerThr, portalObj, senderThr, listenThr, callerThr,
                   history>>

\* while self.running: (and "if self.recv_queue:", a Queue object, is true)
RunCheck ==
    /\ rpc = "check"
    /\ rpc' = IF running THEN "get" ELSE "stopped"
    /\ UNCHANGED <<quota, stop_mark, regThr, fileObj, sendLocal, dealerObj,
                   dealerThr, routerObj, msg, dealer_call, in_call, response,
                   timerThr, portalObj, senderThr, listenThr, callerThr,
                   history>>

\* A dispatch that calls the dealer it saw when the thread was created.
RunGetStale ==
    /\ rpc = "get"
    /\ recv_queue # <<>>
    /\ msg' = queue_head(recv_queue)
    /\ recv_queue' = queue_rest(recv_queue)
    /\ dispatched' = Append(dispatched, msg'.message_id)
    /\ dealer_call' = "echo"
    /\ in_call' = in_call \cup {"run"}
    /\ rpc' = "deal"
    /\ UNCHANGED <<quota, stop_mark, regThr, fileObj, sendLocal, dealerObj,
                   dealerThr, send_queue, timed_events, running,
                   timer_id_counter, message_dealer, response, timerThr,
                   portalObj, senderThr, listenThr, callerThr, enq_hist>>

\* msg = self.recv_queue.get(timeout=1) returns a message; ("if
\* self.send_queue:", a Queue object, is true;) _single_response loads
\* self.message_dealer and calls it with the text.
RunGet ==
    /\ rpc = "get"
    /\ recv_queue # <<>>
    /\ msg' = queue_head(recv_queue)
    /\ recv_queue' = queue_rest(recv_queue)
    /\ dispatched' = Append(dispatched, msg'.message_id)
    /\ dealer_call' = message_dealer
    /\ in_call' = in_call \cup {"run"}
    /\ rpc' = "deal"
    /\ UNCHANGED <<quota, stop_mark, regThr, fileObj, sendLocal, dealerObj,
                   dealerThr, send_queue, timed_events, running,
                   timer_id_counter, message_dealer, response, timerThr,
                   portalObj, senderThr, listenThr, callerThr, enq_hist>>

\* A get without timeout: on an empty queue the loop stays in the get.
RunTimeoutNever ==
    /\ rpc = "get"
    /\ recv_queue = <<>>
    /\ FALSE
    /\ UNCHANGED vars

\* the get times out on an empty queue: except queue.Empty: continue
RunTimeout ==
    /\ rpc = "get"
    /\ recv_queue = <<>>
    /\ rpc' = "check"
    /\ UNCHANGED <<quota, stop_mark, regThr, fileObj, sendLocal, dealerObj,
                   dealerThr, routerObj, msg, dealer_call, in_call, response,
                   timerThr, portalObj, senderThr, listenThr, callerThr,
                   history>>

\* A loop that catches the dealer's exception and puts the message back on
\* recv_queue, to try it again.
RunReturnRequeue ==
    /\ rpc = "deal"
    /\ dealer_call' = None
    /\ in_call' = in_call \ {"run"}
    /\ \E r \in DealerOutcomes(dealer_call, msg.text) :
         IF r = Raise
         THEN /\ recv_queue' = queue_put(recv_queue, msg)
              /\ rpc' = "check"
              /\ UNCHANGED <<response, send_queue, enq_hist>>
         ELSE /\ response' = single_response(msg, r)
              /\ send_queue' = queue_put(send_queue, response')
              /\ enq_hist' = Append(enq_hist, response')
              /\ rpc' = "check"
              /\ UNCHANGED recv_queue
    /\ UNCHANGED <<quota, stop_mark, regThr, fileObj, sendLocal, dealerObj,
                   dealerThr, timed_events, running, timer_id_counter,
                   message_dealer, msg, timerThr, portalObj, senderThr,
                   listenThr, callerThr, dispatched>>

\* The dealer returns r: the response is built and put on send_queue, whatever
\* r is. The only except clause of run is for queue.Empty: when the dealer
\* raises, the exception leaves run and the thread ends.
RunReturn ==
    /\ rpc = "deal"
    /\ dealer_call' = None
    /\ in_call' = in_call \ {"run"}
    /\ \E r \in DealerOutcomes(dealer_call, msg.text) :
         IF r = Raise
         THEN /\ rpc' = "crashed"
              /\ UNCHANGED <<response, send_queue, enq_hist>>
         ELSE /\ response' = single_response(msg, r)
              /\ send_queue' = queue_put(send_queue, response')
              /\ enq_hist' = Append(enq_hist, response')
              /\ rpc' = "check"
    /\ UNCHANGED <<quota, stop_mark, regThr, fileObj, sendLocal, dealerObj,
                   dealerThr, recv_queue, timed_events, running,
                   timer_id_counter, message_dealer, msg, timerThr,
                   portalObj, senderThr, listenThr, callerThr, dispatched>>

RouterNext == RunCheck \/ RunGet \/ RunTimeout \/ RunReturn

\* ------------------------------------- _timed_event_handler, one per timer
\* A handler without the test of interrupted: it puts its message also when
\* the wait was ended by the event.
TimerExitPuts(k) ==
    /\ tpc[k] = "wait"
    /\ event[k]
    /\ send_queue' = queue_put(send_queue, action_then_response(tmsg[k]))
    /\ enq_hist' = Append(enq_hist, action_then_response(tmsg[k]))
    /\ tpc' = [tpc EXCEPT ![k] = "done"]
    /\ UNCHANGED <<quota, stop_mark, regThr, fileObj, sendLocal, dealerObj,
                   dealerThr, recv_queue, timed_events, running,
                   timer_id_counter, message_dealer, routerThr, tmsg, event,
                   nevt, nticks, elapsed, portalObj, senderThr, listenThr,
                   callerThr, dispatched>>

\* A handler that never looks at its event: while True.
TimerExitIgnored(k) ==
    /\ tpc[k] = "wait"
    /\ event[k]
    /\ UNCHANGED vars

\* while not event.is_set(): ... event.wait(interval) returns True: the
\* event is found set, at the loop's test or during the wait, and the
\* handler returns.
TimerExit(k) ==
    /\ tpc[k] = "wait"
    /\ event[k]
    /\ tpc' = [tpc EXCEPT ![k] = "done"]
    /\ UNCHANGED <<quota, stop_mark, regThr, fileObj, sendLocal, dealerObj,
                   dealerThr, routerObj, routerThr, tmsg, event, nevt,
                   nticks, elapsed, portalObj, senderThr, listenThr,
                   callerThr, history>>

\* A wait that the event does not end: time.sleep(interval).
TimerElapseSleep(k) ==
    /\ tpc[k] = "wait"
    /\ nticks < quota.ticks
    /\ nticks' = nticks + 1
    /\ elapsed' = elapsed \cup {k}
    /\ tpc' = [tpc EXCEPT ![k] = "fire"]
    /\ UNCHANGED <<quota, stop_mark, regThr, fileObj, sendLocal, dealerObj,
                   dealerThr, routerObj, routerThr, tmsg, event, nevt,
                   portalObj, senderThr, listenThr, callerThr, history>>

\* interrupted = event.wait(interval), the interval elapses: False
TimerElapse(k) ==
    /\ tpc[k] = "wait"
    /\ ~event[k]
    /\ nticks < quota.ticks
    /\ nticks' = nticks + 1
    /\ elapsed' = elapsed \cup {k}
    /\ tpc' = [tpc EXCEPT ![k] = "fire"]
    /\ UNCHANGED <<quota, stop_mark, regThr, fileObj, sendLocal, dealerObj,
                   dealerThr, routerObj, routerThr, tmsg, event, nevt,
                   portalObj, senderThr, listenThr, callerThr, history>>

\* A timer that builds its message by calling message_dealer itself.
TimerFireDeals(k) ==
    /\ tpc[k] = "fire"
    /\ in_call' = in_call \cup {"timer"}
    /\ send_queue' = queue_put(send_queue, action_then_response(tmsg[k]))
    /\ enq_hist' = Append(enq_hist, action_then_response(tmsg[k]))
    /\ tpc' = [tpc EXCEPT ![k] = "wait"]
    /\ UNCHANGED <<quota, stop_mark, regThr, fileObj, sendLocal, dealerObj,
                   dealerThr, recv_queue, timed_events, running,
                   timer_id_counter, message_dealer, rpc, msg, dealer_call,
                   response, tmsg, event, nevt, nticks, elapsed, portalObj,
                   senderThr, listenThr, callerThr, dispatched>>

\* response = self._action_then_response(message)
\* self.send_queue.put(response)
TimerFire(k) ==
    /\ tpc[k] = "fire"
    /\ send_queue' = queue_put(send_queue, action_then_response(tmsg[k]))
    /\ enq_hist' = Append(enq_hist, action_then_response(tmsg[k]))
    /\ tpc' = [tpc EXCEPT ![k] = "wait"]
    /\ UNCHANGED <<quota, stop_mark, regThr, fileObj, sendLocal, dealerObj,
                   dealerThr, recv_queue, timed_events, running,
                   timer_id_counter, message_dealer, routerThr, tmsg, event,
                   nevt, nticks, elapsed, portalObj, senderThr, listenThr,
                   callerThr, dispatched>>

TimerNext ==
    \E k \in TimerIds :
        TimerExit(k) \/ TimerElapse(k) \/ TimerFire(k)

\* --------------------------------- FeishuPortal.send_from_queue (sender)
\* The sending thread is the only consumer of send_queue and the only writer
\* of what the transport was handed; of one iteration the other threads can
\* observe the write to the log file alone, so an iteration is one step.

\* msg = self.send_queue.get(), which blocks while the queue is empty;
\* send_message: the request is made and response.success() is true;
\* _log_communication(msg) under the lock; task_done().
SendOk ==
    /\ spc = "get"
    /\ send_queue # <<>>
    /\ lock = "free"
    /\ send_queue' = queue_rest(send_queue)
    /\ handed' = Append(handed, queue_head(send_queue))
    /\ log' = log_write(log, queue_head(send_queue))
    /\ UNCHANGED <<quota, stop_mark, regThr, fileObj, sendLocal, dealerObj,
                   dealerThr, recv_queue, timed_events, running,
                   timer_id_counter, message_dealer, routerThr, timerThr,
                   lock, senderThr, listenThr, callerThr, history>>

\* msg = self.send_queue.get(); send_message: response.success() is false:
\* raise Exception(...), before _log_communication is reached;
\* send_from_queue catches nothing, so the thread ends.
SendFail ==
    /\ spc = "get"
    /\ send_queue # <<>>
    /\ send_queue' = queue_rest(send_queue)
    /\ handed' = Append(handed, queue_head(send_queue))
    /\ spc' = "dead"
    /\ UNCHANGED <<quota, stop_mark, regThr, fileObj, sendLocal, dealerObj,
                   dealerThr, recv_queue, timed_events, running,
                   timer_id_counter, message_dealer, routerThr, timerThr,
                   log, lock, listenThr, callerThr, history>>

SenderNext == SendOk \/ SendFail

\* ------------------------------ FeishuPortal._on_message_received (listener)
\* msg = self.get_pack_msg(data); self.recv_queue.put(msg)
Receive(c) ==
    /\ lpc = "idle"
    /\ nrecv < quota.msgs
    /\ nrecv' = nrecv + 1
    /\ lmsg' = get_pack_msg(nrecv + 1, c)
    /\ recv_queue' = queue_put(recv_queue, lmsg')
    /\ lpc' = "log"
    /\ UNCHANGED <<quota, stop_mark, regThr, fileObj, sendLocal, dealerObj,
                   dealerThr, send_queue, timed_events, running,
                   timer_id_counter, message_dealer, routerThr, timerThr,
                   portalObj, senderThr, callerThr, history>>

\* self._log_communication(msg): the write under the lock; the callback
\* returns
ListenLog ==
    /\ lpc = "log"
    /\ lock = "free"
    /\ log' = log_write(log, lmsg)
    /\ lpc' = "idle"
    /\ lmsg' = NoMsg
    /\ UNCHANGED <<quota, stop_mark, regThr, fileObj, sendLocal, dealerObj,
                   dealerThr, routerObj, routerThr, timerThr, lock, handed,
                   senderThr, nrecv, callerThr, history>>

ListenerNext == (\E c \in Chats : Receive(c)) \/ ListenLog

\* --------------------------- the thread calling the router's public methods
\* The registry and the id counter are read and written by this thread only;
\* of a call's statements the other threads can observe the writes of
\* running, of message_dealer and of an Event, and the start of a thread.
\* A call is therefore one step, except stop(), which is one step per write.

\* Thread.start(): run() begins in its own thread.
CallStart ==
    /\ cpc = "idle"
    /\ rpc = "created"
    /\ rpc' = "check"
    /\ UNCHANGED <<quota, stop_mark, regThr, fileObj, sendLocal, dealerObj,
                   dealerThr, routerObj, msg, dealer_call, in_call, response,
                   timerThr, portalObj, senderThr, listenThr, callerThr,
                   history>>

\* set_message_dealer(d): self.message_dealer = message_dealer
CallSetDealer(d) ==
    /\ cpc = "idle"
    /\ message_dealer' = d
    /\ UNCHANGED <<quota, stop_mark, regThr, fileObj, sendLocal, dealerObj,
                   dealerThr, recv_queue, send_queue, timed_events, running,
                   timer_id_counter, routerThr, timerThr, portalObj,
                   senderThr, listenThr, callerThr, history>>

\* register_timed_event(interval, user_name, a): the message literal, a new
\* Event, the next timer id, the registry entry, the timer thread started.
CallRegister(a) ==
    /\ cpc = "idle"
    /\ nevt < quota.timers
    /\ nevt' = nevt + 1
    /\ timer_id_counter' = timer_id_counter + 1
    /\ timed_events' = dict_set(timed_events, timer_id_counter,
                                timer_message(a), nevt + 1)
    /\ tpc' = [tpc EXCEPT ![nevt + 1] = "wait"]
    /\ tmsg' = [tmsg EXCEPT ![nevt + 1] = timer_message(a)]
    /\ UNCHANGED <<quota, stop_mark, regThr, fileObj, sendLocal, dealerObj,
                   dealerThr, recv_queue, send_queue, running,
                   message_dealer, routerThr, event, nticks, elapsed,
                   portalObj, senderThr, listenThr, callerThr, history>>

\* A membership test that is missing.
unregister_found_always(d, key) == TRUE

\* if timer_id in self.timed_events:
unregister_found(d, key) == dict_has(d, key)

\* unregister_timed_event(h), the body: the event is set and the entry
\* deleted when the id is found (a KeyError when the lookup then fails),
\* nothing happens otherwise. The result is "cancelled", "noop" or "raised".
unregister_result(d, h) ==
    IF unregister_found(d, h)
    THEN IF dict_has(d, h) THEN "cancelled" ELSE "raised"
    ELSE "noop"

\* The registry and the events after unregister_timed_event(h).
unregister_registry(d, h) ==
    IF unregister_result(d, h) = "cancelled" THEN dict_del(d, h) ELSE d
unregister_events(d, e, h) ==
    IF unregister_result(d, h) = "cancelled"
    THEN [e EXCEPT ![dict_get(d, h).event] = TRUE]
    ELSE e

UnregisterBody(h) ==
    /\ timed_events' = unregister_registry(timed_events, h)
    /\ event' = unregister_events(timed_events, event, h)
    /\ cerr' = (cerr \/ unregister_result(timed_events, h) = "raised")

\* unregister_timed_event(h), called by the user of the router
CallUnregister(h) ==
    /\ cpc = "idle"
    /\ UnregisterBody(h)
    /\ UNCHANGED <<quota, stop_mark, regThr, fileObj, sendLocal, dealerObj,
                   dealerThr, recv_queue, send_queue, running,
                   timer_id_counter, message_dealer, routerThr, tpc, tmsg,
                   nevt, nticks, elapsed, portalObj, senderThr, listenThr,
                   cpc, ctodo, history>>

\* A loop that leaves after its first timer.
stop_snapshot_first(d) ==
    IF dict_keys(d) = <<>> THEN <<>> ELSE <<dict_keys(d)[1]>>

\* list(self.timed_events.keys())
stop_snapshot(d) == dict_keys(d)

\* stop(): self.running = False, and the list the for loop iterates over
CallStop ==
    /\ cpc = "idle"
    /\ running' = FALSE
    /\ stop_mark' = IF stop_mark = <<>> THEN <<Len(dispatched)>>
                    ELSE stop_mark
    /\ ctodo' = stop_snapshot(timed_events)
    /\ cpc' = "stop_loop"
    /\ UNCHANGED <<quota, regThr, fileObj, sendLocal, dealerObj,
                   dealerThr, recv_queue, send_queue, timed_events,
                   timer_id_counter, message_dealer, routerThr, timerThr,
                   portalObj, senderThr, listenThr, cerr, history>>

\* for timer_id in ...: self.unregister_timed_event(timer_id)
StopUnregister ==
    /\ cpc = "stop_loop"
    /\ ctodo # <<>>
    /\ UnregisterBody(Head(ctodo))
    /\ IF unregister_result(timed_events, Head(ctodo)) = "raised"
       THEN cpc' = "idle" /\ ctodo' = <<>>
       ELSE ctodo' = Tail(ctodo) /\ UNCHANGED cpc
    /\ UNCHANGED <<quota, stop_mark, regThr, fileObj, sendLocal, dealerObj,
                   dealerThr, recv_queue, send_queue, running,
                   timer_id_counter, message_dealer, routerThr, tpc, tmsg,
                   nevt, nticks, elapsed, portalObj, senderThr, listenThr,
                   history>>

\* the for loop is exhausted: stop() returns
StopReturn ==
    /\ cpc = "stop_loop"
    /\ ctodo = <<>>
    /\ cpc' = "idle"
    /\ UNCHANGED <<quota, stop_mark, regThr, fileObj, sendLocal, dealerObj,
                   dealerThr, routerObj, routerThr, timerThr, portalObj,
                   senderThr, listenThr, ctodo, cerr, history>>

CallerNext ==
    \/ CallStart
    \/ \E d \in Dealers : CallSetDealer(d)
    \/ \E a \in Actions : CallRegister(a)
    \/ \E h \in 0..MaxTimers : CallUnregister(h)
    \/ CallStop \/ StopUnregister \/ StopReturn

Next == RouterNext \/ TimerNext \/ SenderNext \/ ListenerNext \/ CallerNext

Spec == Init /\ [][Next]_vars

\* The dispatch thread and the caller are scheduled fairly: a thread that
\* can take a step eventually takes one (a call of the dealer returns or
\* raises, a get with timeout returns, stop() runs on).
FairSpec ==
    /\ Spec
    /\ WF_vars(RouterNext)
    /\ WF_vars(StopUnregister \/ StopReturn)

\* The timer threads are scheduled fairly: a thread whose wait was ended
\* by its event, or whose interval has elapsed, eventually runs on.
TimerFairSpec ==
    /\ Spec
    /\ \A k \in TimerIds : WF_vars(TimerExit(k) \/ TimerFire(k))

\* ------------------------------------------- MessageDealer.deal_message
\* The dealer is called by one thread; a call is one step, except that the
\* call of the language model (self.llm.invoke) is a step of its own, which
\* returns or raises.

\* The values of max_num a caller of get_history_content passes.
MaxNums == {1, HistoryWindow, 5}

\* A deal_message that records nothing when it does not reply.
DealNoReplyDrop(m) ==
    /\ dpc = "idle"
    /\ ncalls < MaxCalls
    /\ ~Truthy(is_need_to_reply(m))
    /\ ncalls' = ncalls + 1
    /\ dop' = "deal" /\ dmsg' = m /\ dneed' = is_need_to_reply(m)
    /\ dout' = "none" /\ dret' = NoJson
    /\ UNCHANGED <<quota, stop_mark, regThr, fileObj, sendLocal, routerObj,
                   routerThr, timerThr, portalObj, senderThr, listenThr,
                   callerThr, history, dealerObj, dpc, dmax, dwin,
                   dmessages>>

\* deal_message(m): if not self.is_need_to_reply(msg_json):
\*     self.append_to_history(msg_json); return None
DealNoReply(m) ==
    /\ dpc = "idle"
    /\ ncalls < MaxCalls
    /\ ~Truthy(is_need_to_reply(m))
    /\ ncalls' = ncalls + 1
    /\ dop' = "deal" /\ dmsg' = m /\ dneed' = is_need_to_reply(m)
    /\ chat_history' = append_to_history(chat_history, m)
    /\ dout' = "none" /\ dret' = NoJson
    /\ UNCHANGED <<quota, stop_mark, regThr, fileObj, sendLocal, routerObj,
                   routerThr, timerThr, portalObj, senderThr, listenThr,
                   callerThr, history, tool_dict, dpc, dmax, dwin,
                   dmessages>>

\* deal_message(m) on a message to reply to, with tool_dict None: gen_prompt
\* returns '' and self.tool_dict['chattool'] raises a TypeError, which
\* leaves deal_message.
DealNoTools(m) ==
    /\ dpc = "idle"
    /\ ncalls < MaxCalls
    /\ Truthy(is_need_to_reply(m))
    /\ tool_dict = None
    /\ ncalls' = ncalls + 1
    /\ dop' = "deal" /\ dmsg' = m /\ dneed' = is_need_to_reply(m)
    /\ dout' = "raise" /\ dret' = NoJson
    /\ UNCHANGED <<quota, stop_mark, regThr, fileObj, sendLocal, routerObj,
                   routerThr, timerThr, portalObj, senderThr, listenThr,
                   callerThr, history, dealerObj, dpc, dmax, dwin,
                   dmessages>>

\* deal_message(m) on a message to reply to: the system prompt, the history
\* window (get_history_content with the default max_num), the text of the
\* message, and self.llm.invoke(messages) is called.
DealInvoke(m) ==
    /\ dpc = "idle"
    /\ ncalls < MaxCalls
    /\ Truthy(is_need_to_reply(m))
    /\ tool_dict # None
    /\ ncalls' = ncalls + 1
    /\ dop' = "deal" /\ dmsg' = m /\ dneed' = is_need_to_reply(m)
    /\ dmax' = HistoryWindow
    /\ dwin' = get_history_content(chat_history, m, HistoryWindow)
    /\ dmessages' = llm_messages(tool_dict, dwin', m)
    /\ dout' = "-" /\ dret' = NoJson
    /\ dpc' = "llm"
    /\ UNCHANGED <<quota, stop_mark, regThr, fileObj, sendLocal, routerObj,
                   routerThr, timerThr, portalObj, senderThr, listenThr,
                   callerThr, history, dealerObj>>

\* ai_msg = self.llm.invoke(messages) returns: the response is built by
\* simple_msg_by, the message and the response are appended to the history,
\* the response is returned.
LlmReturn ==
    /\ dpc = "llm"
    /\ dret' = simple_msg_by(dmsg, BotName, "ai")
    /\ chat_history' =
           append_to_history(append_to_history(chat_history, dmsg), dret')
    /\ dout' = "reply"
    /\ dpc' = "idle"
    /\ UNCHANGED <<quota, stop_mark, regThr, fileObj, sendLocal, routerObj,
                   routerThr, timerThr, portalObj, senderThr, listenThr,
                   callerThr, history, tool_dict, dop, dmsg, dmax, dneed,
                   dwin, dmessages, ncalls>>

\* A deal_message that records the message before it calls the model.
LlmRaiseRecorded ==
    /\ dpc = "llm"
    /\ chat_history' = append_to_history(chat_history, dmsg)
    /\ dout' = "raise"
    /\ dpc' = "idle"
    /\ UNCHANGED <<quota, stop_mark, regThr, fileObj, sendLocal, routerObj,
                   routerThr, timerThr, portalObj, senderThr, listenThr,
                   callerThr, history, tool_dict, dop, dmsg, dmax, dneed,
                   dwin, dmessages, dret, ncalls>>

\* self.llm.invoke(messages) raises: deal_message has no try, the exception
\* leaves it before anything is appended.
LlmRaise ==
    /\ dpc = "llm"
    /\ dout' = "raise"
    /\ dpc' = "idle"
    /\ UNCHANGED <<quota, stop_mark, regThr, fileObj, sendLocal, routerObj,
                   routerThr, timerThr, portalObj, senderThr, listenThr,
                   callerThr, history, dealerObj, dop, dmsg, dmax, dneed,
                   dwin, dmessages, dret, ncalls>>

\* get_history_content(m, max_num=n), called on its own
GetHistory(m, n) ==
    /\ dpc = "idle"
    /\ ncalls < MaxCalls
    /\ ncalls' = ncalls + 1
    /\ dop' = "window" /\ dmsg' = m /\ dmax' = n
    /\ dwin' = get_history_content(chat_history, m, n)
    /\ dout' = "window" /\ dret' = NoJson
    /\ UNCHANGED <<quota, stop_mark, regThr, fileObj, sendLocal, routerObj,
                   routerThr, timerThr, portalObj, senderThr, listenThr,
                   callerThr, history, dealerObj, dpc, dneed, dmessages>>

DealerNext ==
    \/ \E c \in DealerChats, ms \in MentionLists :
          LET m == msg_json(ncalls + 1, c, ms)
          IN  \/ DealNoReply(m)
              \/ DealNoTools(m)
              \/ DealInvoke(m)
              \/ \E n \in MaxNums : GetHistory(m, n)
    \/ LlmReturn
    \/ LlmRaise

\* A MessageDealer on its own, constructed with any tool_dict, and called
\* by one thread; the router is as constructed and does nothing.
DealerInit ==
    /\ RouterInit
    /\ quota = [msgs |-> 0, timers |-> 0, ticks |-> 0]
    /\ \E td \in ToolDicts : MessageDealerInit(td)

DealerSpec == DealerInit /\ [][DealerNext]_vars

\* ------------------------------------------------ the log file and its replay
\* The text of the log file is a sequence of tokens: the braces, the comma
\* and the newline that json.dumps(m, indent=4) writes, each a token, and one
\* token for a key with its value (json.dumps writes a string value between
\* quotes with every newline in it escaped, so a value is never mistaken
\* for the other tokens). Indentation is white space and left out.

\* The texts of the messages that are logged: a plain one, one that holds
\* a brace, a newline and a brace, and None.
LogTexts == {"hi", "}\n{", None}

\* json.dumps of a value: null for None, the string between quotes.
json_str(x) == IF x = None THEN "null" ELSE "\"" \o x \o "\""
json_kv(k, x) == "\"" \o k \o "\": " \o x

\* json.dumps(m, indent=4) of a message; a timer's message has no
\* message_id key.
json_dumps(m) ==
    <<"{", "\n", json_kv("chat_type", json_str(m.chat_type)), ",", "\n",
      json_kv("chat_id", json_str(m.chat_id)), ",", "\n">>
    \o (IF m.message_id = NoId THEN <<>>
        ELSE <<json_kv("message_id", ToString(m.message_id)), ",", "\n">>)
    \o <<json_kv("sender_id", json_str(m.sender_id)), ",", "\n",
         "\"content\": ", "{", "\n", json_kv("text", json_str(m.text)), "\n",
         "}", "\n", "}">>

\* A write without the newline after the object.
file_write_bare(f, m) == f \o json_dumps(m)

\* f.write(json.dumps(message_log, indent=4) + '\n') on a file opened to
\* append.
file_write(f, m) == f \o json_dumps(m) \o <<"\n">>

\* s.replace('}\n{', '},\n{')
RECURSIVE str_replace(_)
str_replace(t) ==
    IF t = <<>> THEN <<>>
    ELSE IF Len(t) >= 3 /\ SubSeq(t, 1, 3) = <<"}", "\n", "{">>
         THEN <<"}", ",", "\n", "{">> \o str_replace(SubSeq(t, 4, Len(t)))
         ELSE <<Head(t)>> \o str_replace(Tail(t))

\* The messages a log can hold, which json.loads can give back.
LogMessages ==
    { [get_pack_msg(n, c) EXCEPT !.text = x] :
          n \in 1..MaxLogged, c \in Chats, x \in LogTexts }
    \cup { action_then_response(timer_message(a)) : a \in Actions }

\* json.loads, white space: the first index from i on that is no newline.
RECURSIVE json_skip(_, _)
json_skip(t, i) ==
    IF i <= Len(t) /\ t[i] = "\n" THEN json_skip(t, i + 1) ELSE i

\* json.loads, an object: the index of the brace that closes the object
\* opened at i - 1, with d braces open at i; 0 when there is none.
RECURSIVE json_close(_, _, _)
json_close(t, i, d) ==
    IF i > Len(t) THEN 0
    ELSE IF t[i] = "{" THEN json_close(t, i + 1, d + 1)
    ELSE IF t[i] = "}"
         THEN IF d = 1 THEN i ELSE json_close(t, i + 1, d - 1)
    ELSE json_close(t, i + 1, d)

\* json.loads, the elements of an array from index i on: after an element
\* comes a comma and another element, or the closing bracket, which ends
\* the text. The result is the list of objects, or a JSONDecodeError.
RECURSIVE json_elements(_, _, _)
json_elements(t, i, first) ==
    LET j == json_skip(t, i)
    IN  IF j > Len(t) THEN [ok |-> FALSE, items |-> <<>>]
        ELSE IF first /\ t[j] = "]"
             THEN [ok |-> j = Len(t), items |-> <<>>]
        ELSE IF t[j] # "{" THEN [ok |-> FALSE, items |-> <<>>]
        ELSE
          LET e == json_close(t, j + 1, 1)
              obj == SubSeq(t, j, e)
              found == {m \in LogMessages : json_dumps(m) = obj}
              k == json_skip(t, e + 1)
          IN  IF e = 0 \/ found = {} \/ k > Len(t)
              THEN [ok |-> FALSE, items |-> <<>>]
              ELSE IF t[k] = "]"
                   THEN [ok |-> k = Len(t),
                         items |-> <<CHOOSE m \in found : TRUE>>]
              ELSE IF t[k] = ","
                   THEN LET rest == json_elements(t, k + 1, FALSE)
                        IN  [ok |-> rest.ok,
                             items |-> <<CHOOSE m \in found : TRUE>>
                                       \o rest.items]
              ELSE [ok |-> FALSE, items |-> <<>>]

\* json.loads of a text that is an array
json_loads(t) ==
    IF t # <<>> /\ Head(t) = "["
    THEN json_elements(t, 2, TRUE)
    ELSE [ok |-> FALSE, items |-> <<>>]

\* _get_historical_msg, the grouping: for msg in chat_history_all: the
\* chat's list is created at the chat's first message, and the message is
\* appended to it.
RECURSIVE group_by_chat(_, _)
group_by_chat(h, items) ==
    IF items = <<>> THEN h
    ELSE LET m == Head(items)
             h1 == IF m.chat_id \in DOMAIN h
                   THEN [h EXCEPT ![m.chat_id] = Append(@, m)]
                   ELSE h @@ (m.chat_id :> <<m>>)
         IN  group_by_chat(h1, Tail(items))

\* MessageDealer._get_historical_msg(path) on a file whose text is f: the
\* text is repaired, put between brackets and decoded; the result is the
\* dict of the chats' lists, or the decoder's exception.
get_historical_msg(f) ==
    LET loaded == json_loads(<<"[">> \o str_replace(f) \o <<"]">>)
    IN  [ok |-> loaded.ok,
         history |-> IF loaded.ok THEN group_by_chat(<<>>, loaded.items)
                     ELSE <<>>]

\* FeishuPortal._log_communication(m), by any thread: the object is written
\* to the end of the file.
LogAppend(m) ==
    /\ Len(log) < MaxLogged
    /\ log' = log_write(log, m)
    /\ log_file' = file_write(log_file, m)
    /\ UNCHANGED <<quota, stop_mark, regThr, sendLocal, routerObj, routerThr,
                   timerThr, lock, handed, senderThr, listenThr, callerThr,
                   history, dealerObj, dealerThr>>

\* MessageDealer.__init__(chat_database_path): chat_history is what
\* _get_historical_msg makes of the log file.
DealerLoad ==
    /\ ncalls < MaxCalls
    /\ ncalls' = ncalls + 1
    /\ dop' = "load"
    /\ LET got == get_historical_msg(log_file)
       IN  /\ dout' = IF got.ok THEN "loaded" ELSE "raise"
           /\ chat_history' = got.history
    /\ UNCHANGED <<quota, stop_mark, regThr, fileObj, sendLocal, routerObj,
                   routerThr, timerThr, portalObj, senderThr, listenThr,
                   callerThr, history, tool_dict, dpc, dmsg, dmax, dneed,
                   dwin, dret, dmessages>>

LogNext ==
    \/ \E c \in Chats, x \in LogTexts :
          LogAppend([get_pack_msg(Len(log) + 1, c) EXCEPT !.text = x])
    \/ \E a \in Actions : LogAppend(action_then_response(timer_message(a)))
    \/ DealerLoad

\* The log file on its own: objects are appended to it, and a dealer is
\* constructed from it at any time; the router does nothing.
LogInit ==
    /\ RouterInit
    /\ quota = [msgs |-> 0, timers |-> 0, ticks |-> 0]
    /\ MessageDealerInit(None)

LogSpec == LogInit /\ [][LogNext]_vars

\* ------------------------------- FeishuPortal._log_communication, by step
\* The same two threads as above with the statements of one append apart:
\* "with self.lock" acquires the lock, f.write writes the entry, leaving the
\* with statement releases the lock. The sending loop's iteration is apart
\* in the same way: the get, the request to the transport, the append.

\* An acquire that does not wait for the lock.
ListenAcquireNoLock ==
    /\ lpc = "log"
    /\ lock' = "listener"
    /\ lpc' = "write"
    /\ UNCHANGED <<quota, stop_mark, regThr, fileObj, sendLocal, dealerObj,
                   dealerThr, routerObj, routerThr, timerThr, log, handed,
                   senderThr, lmsg, nrecv, callerThr, history>>

\* listener: with self.lock: (blocks until the lock is free)
ListenAcquire ==
    /\ lpc = "log"
    /\ lock = "free"
    /\ lock' = "listener"
    /\ lpc' = "write"
    /\ UNCHANGED <<quota, stop_mark, regThr, fileObj, sendLocal, dealerObj,
                   dealerThr, routerObj, routerThr, timerThr, log, handed,
                   senderThr, lmsg, nrecv, callerThr, history>>

\* listener: with open(self.log_file, 'a') as f: f.write(...)
ListenWrite ==
    /\ lpc = "write"
    /\ log' = log_write(log, lmsg)
    /\ lpc' = "release"
    /\ UNCHANGED <<quota, stop_mark, regThr, fileObj, sendLocal, dealerObj,
                   dealerThr, routerObj, routerThr, timerThr, lock, handed,
                   senderThr, lmsg, nrecv, callerThr, history>>

\* listener: the with statement is left, which releases the lock; the
\* callback returns
ListenRelease ==
    /\ lpc = "release"
    /\ lock' = "free"
    /\ lpc' = "idle"
    /\ lmsg' = NoMsg
    /\ UNCHANGED <<quota, stop_mark, regThr, fileObj, sendLocal, dealerObj,
                   dealerThr, routerObj, routerThr, timerThr, log, handed,
                   senderThr, nrecv, callerThr, history>>

\* sender: msg = self.send_queue.get()
SendGet ==
    /\ spc = "get"
    /\ send_queue # <<>>
    /\ send_queue' = queue_rest(send_queue)
    /\ smsg' = queue_head(send_queue)
    /\ spc' = "send"
    /\ UNCHANGED <<quota, stop_mark, regThr, fileObj, dealerObj, dealerThr,
                   recv_queue, timed_events, running, timer_id_counter,
                   message_dealer, routerThr, timerThr, portalObj, listenThr,
                   callerThr, history>>

\* sender: send_message: the request is made, response.success() is true
SendRequestOk ==
    /\ spc = "send"
    /\ handed' = Append(handed, smsg)
    /\ spc' = "log"
    /\ UNCHANGED <<quota, stop_mark, regThr, fileObj, sendLocal, dealerObj,
                   dealerThr, routerObj, routerThr, timerThr, log, lock,
                   listenThr, callerThr, history>>

\* sender: send_message: response.success() is false: raise Exception(...);
\* the thread ends
SendRequestFail ==
    /\ spc = "send"
    /\ handed' = Append(handed, smsg)
    /\ spc' = "dead"
    /\ smsg' = NoMsg
    /\ UNCHANGED <<quota, stop_mark, regThr, fileObj, dealerObj, dealerThr,
                   routerObj, routerThr, timerThr, log, lock, listenThr,
                   callerThr, history>>

\* sender: with self.lock: (blocks until the lock is free)
SendAcquire ==
    /\ spc = "log"
    /\ lock = "free"
    /\ lock' = "sender"
    /\ spc' = "write"
    /\ UNCHANGED <<quota, stop_mark, regThr, fileObj, sendLocal, dealerObj,
                   dealerThr, routerObj, routerThr, timerThr, log, handed,
                   listenThr, callerThr, history>>

\* sender: with open(self.log_file, 'a') as f: f.write(...)
SendWrite ==
    /\ spc = "write"
    /\ log' = log_write(log, smsg)
    /\ spc' = "release"
    /\ UNCHANGED <<quota, stop_mark, regThr, fileObj, sendLocal, dealerObj,
                   dealerThr, routerObj, routerThr, timerThr, lock, handed,
                   listenThr, callerThr, history>>

\* sender: the with statement is left, which releases the lock;
\* self.send_queue.task_done(); the loop goes on
SendRelease ==
    /\ spc = "release"
    /\ lock' = "free"
    /\ spc' = "get"
    /\ smsg' = NoMsg
    /\ UNCHANGED <<quota, stop_mark, regThr, fileObj, dealerObj, dealerThr,
                   routerObj, routerThr, timerThr, log, handed, listenThr,
                   callerThr, history>>

LockNext ==
    \/ RouterNext \/ TimerNext \/ CallerNext
    \/ \E c \in Chats : Receive(c)
    \/ ListenAcquire \/ ListenWrite \/ ListenRelease
    \/ SendGet \/ SendRequestOk \/ SendRequestFail
    \/ SendAcquire \/ SendWrite \/ SendRelease

\* The router and the portal of Spec, the appends taken statement by
\* statement.
LockSpec == Init /\ [][LockNext]_vars

\* -------------------------------------- conn_macaca.py: MessageRouter
\* The router of conn_macaca.py, on the same queues: timed events are a list
\* without handles, there is no dealer, and the portal's listener is the
\* producer of recv_queue.

\* str(msg) of a message dict.
py_str(m) ==
    "{'chat_type': '" \o m.chat_type \o "', 'chat_id': '" \o m.chat_id
    \o "', 'message_id': '" \o ToString(m.message_id)
    \o "', 'sender_id': '" \o m.sender_id
    \o "', 'content': {'text': '" \o m.text \o "'}}"

\* A str object on send_queue, in the shape of the queue's other items:
\* it has a text and none of a message's keys.
str_object(s) == [NoMsg EXCEPT !.chat_type = "<str>", !.text = s]

\* The tuple (interval, message, event) of the list timed_events.
macaca_item(message, ev) == [key |-> NoId, message |-> message, event |-> ev]

\* register_timed_event(interval, message): the tuple is appended and the
\* timer's thread started.
MacacaRegister(a) ==
    /\ cpc = "idle"
    /\ nevt < quota.timers
    /\ nevt' = nevt + 1
    /\ timed_events' = Append(timed_events,
                              macaca_item(timer_message(a), nevt + 1))
    /\ tpc' = [tpc EXCEPT ![nevt + 1] = "wait"]
    /\ tmsg' = [tmsg EXCEPT ![nevt + 1] = timer_message(a)]
    /\ UNCHANGED <<quota, stop_mark, regThr, fileObj, sendLocal, dealerObj,
                   dealerThr, recv_queue, send_queue, running,
                   timer_id_counter, message_dealer, routerThr, event,
                   nticks, elapsed, portalObj, senderThr, listenThr,
                   callerThr, history>>

\* while not event.is_set(): the event is set, the thread ends
MacacaTimerExit(k) ==
    /\ tpc[k] = "wait"
    /\ event[k]
    /\ tpc' = [tpc EXCEPT ![k] = "done"]
    /\ UNCHANGED <<quota, stop_mark, regThr, fileObj, sendLocal, dealerObj,
                   dealerThr, routerObj, routerThr, tmsg, event, nevt,
                   nticks, elapsed, portalObj, senderThr, listenThr,
                   callerThr, history>>

\* while not event.is_set(): the event is not set; time.sleep(interval)
\* begins
MacacaTimerSleep(k) ==
    /\ tpc[k] = "wait"
    /\ ~event[k]
    /\ nticks < quota.ticks
    /\ nticks' = nticks + 1
    /\ tpc' = [tpc EXCEPT ![k] = "sleep"]
    /\ UNCHANGED <<quota, stop_mark, regThr, fileObj, sendLocal, dealerObj,
                   dealerThr, routerObj, routerThr, tmsg, event, nevt,
                   elapsed, portalObj, senderThr, listenThr, callerThr,
                   history>>

\* time.sleep(interval) returns, the event set or not;
\* self.send_queue.put(message): the stored message itself
MacacaTimerPut(k) ==
    /\ tpc[k] = "sleep"
    /\ elapsed' = elapsed \cup {k}
    /\ send_queue' = queue_put(send_queue, tmsg[k])
    /\ enq_hist' = Append(enq_hist, tmsg[k])
    /\ tpc' = [tpc EXCEPT ![k] = "wait"]
    /\ UNCHANGED <<quota, stop_mark, regThr, fileObj, sendLocal, dealerObj,
                   dealerThr, recv_queue, timed_events, running,
                   timer_id_counter, message_dealer, routerThr, tmsg, event,
                   nevt, nticks, portalObj, senderThr, listenThr, callerThr,
                   dispatched>>

\* msg = self.recv_queue.get(timeout=1) returns a message
MacacaRunGet ==
    /\ rpc = "get"
    /\ recv_queue # <<>>
    /\ msg' = queue_head(recv_queue)
    /\ recv_queue' = queue_rest(recv_queue)
    /\ dispatched' = Append(dispatched, msg'.message_id)
    /\ rpc' = "deal"
    /\ UNCHANGED <<quota, stop_mark, regThr, fileObj, sendLocal, dealerObj,
                   dealerThr, send_queue, timed_events, running,
                   timer_id_counter, message_dealer, dealer_call, in_call,
                   response, timerThr, portalObj, senderThr, listenThr,
                   callerThr, enq_hist>>

\* msg['content']['text'] = f"Received: {msg['content']['text']}": the
\* assignment is to the dict that was taken from the queue, which is the
\* dict the listener still holds when its callback has not logged it yet;
\* self.send_queue.put(f"Received: {msg}")
MacacaRunPut ==
    /\ rpc = "deal"
    /\ msg' = [msg EXCEPT !.text = Echo(msg.text)]
    /\ lmsg' = IF lpc = "log" /\ lmsg.message_id = msg.message_id
               THEN msg' ELSE lmsg
    /\ response' = str_object(Echo(py_str(msg')))
    /\ send_queue' = queue_put(send_queue, response')
    /\ enq_hist' = Append(enq_hist, response')
    /\ rpc' = "check"
    /\ UNCHANGED <<quota, stop_mark, regThr, fileObj, sendLocal, dealerObj,
                   dealerThr, recv_queue, timed_events, running,
                   timer_id_counter, message_dealer, dealer_call, in_call,
                   timerThr, portalObj, senderThr, lpc, nrecv, callerThr,
                   dispatched>>

\* stop(): self.running = False; every event of the list is set
MacacaStop ==
    /\ cpc = "idle"
    /\ running' = FALSE
    /\ stop_mark' = IF stop_mark = <<>> THEN <<Len(dispatched)>>
                    ELSE stop_mark
    /\ event' = [k \in TimerIds |->
                    event[k] \/ \E i \in 1..Len(timed_events) :
                                    timed_events[i].event = k]
    /\ UNCHANGED <<quota, regThr, fileObj, sendLocal, dealerObj,
                   dealerThr, recv_queue, send_queue, timed_events,
                   timer_id_counter, message_dealer, routerThr, tpc, tmsg,
                   nevt, nticks, elapsed, portalObj, senderThr, listenThr,
                   callerThr, history>>

MacacaNext ==
    \/ CallStart \/ RunCheck \/ MacacaRunGet \/ RunTimeout \/ MacacaRunPut
    \/ \E a \in Actions : MacacaRegister(a)
    \/ \E k \in TimerIds :
           MacacaTimerExit(k) \/ MacacaTimerSleep(k) \/ MacacaTimerPut(k)
    \/ MacacaStop
    \/ ListenerNext

MacacaSpec == Init /\ [][MacacaNext]_vars

\* ------------------------------- the router with a MessageDealer installed
\* The program that installs a MessageDealer in the router: the dispatch
\* loop hands the message it took from recv_queue to deal_message and puts
\* the reply on send_queue when there is one. The listener and the sending
\* loop are the portal's.

\* The dict of a queue item as deal_message reads it; the portal's record
\* of a message carries no mention.
to_msg_json(m) ==
    [chat_type |-> m.chat_type, chat_id |-> m.chat_id,
     message_id |-> m.message_id, sender_id |-> m.sender_id,
     text |-> m.text, mentions |-> <<>>]

\* The dict of a History entry as the queues and the log hold it.
to_queue_item(j) ==
    [chat_type |-> j.chat_type, chat_id |-> j.chat_id,
     message_id |-> j.message_id, sender_id |-> j.sender_id,
     text |-> j.text]

\* deal_message(msg) returns None: the message is in the History and
\* nothing is put on send_queue.
WiredDealNone ==
    /\ rpc = "deal"
    /\ ~Truthy(is_need_to_reply(to_msg_json(msg)))
    /\ chat_history' = append_to_history(chat_history, to_msg_json(msg))
    /\ dealer_call' = None
    /\ in_call' = in_call \ {"run"}
    /\ rpc' = "check"
    /\ UNCHANGED <<quota, stop_mark, regThr, fileObj, sendLocal, tool_dict,
                   dealerThr, routerObj, msg, response, timerThr, portalObj,
                   senderThr, listenThr, callerThr, history>>

\* deal_message(msg) returns the reply: the message and the reply are in
\* the History, the reply is put on send_queue.
WiredDealReply ==
    /\ rpc = "deal"
    /\ Truthy(is_need_to_reply(to_msg_json(msg)))
    /\ LET reply == simple_msg_by(to_msg_json(msg), BotName, "ai")
       IN  /\ chat_history' =
                  append_to_history(
                      append_to_history(chat_history, to_msg_json(msg)),
                      reply)
           /\ response' = to_queue_item(reply)
    /\ send_queue' = queue_put(send_queue, response')
    /\ enq_hist' = Append(enq_hist, response')
    /\ dealer_call' = None
    /\ in_call' = in_call \ {"run"}
    /\ rpc' = "check"
    /\ UNCHANGED <<quota, stop_mark, regThr, fileObj, sendLocal, tool_dict,
                   dealerThr, recv_queue, timed_events, running,
                   timer_id_counter, message_dealer, msg, timerThr,
                   portalObj, senderThr, listenThr, callerThr, dispatched>>

\* self.llm.invoke raises inside deal_message: nothing is appended, and the
\* exception leaves run as any exception of the dealer does.
WiredDealRaise ==
    /\ rpc = "deal"
    /\ Truthy(is_need_to_reply(to_msg_json(msg)))
    /\ dealer_call' = None
    /\ in_call' = in_call \ {"run"}
    /\ rpc' = "crashed"
    /\ UNCHANGED <<quota, stop_mark, regThr, fileObj, sendLocal, dealerObj,
                   dealerThr, routerObj, msg, response, timerThr, portalObj,
                   senderThr, listenThr, callerThr, history>>

WiredNext ==
    \/ CallStart \/ RunCheck \/ RunGet \/ RunTimeout
    \/ WiredDealNone \/ WiredDealReply \/ WiredDealRaise
    \/ SenderNext
    \/ ListenerNext

WiredInit ==
    /\ RouterInit
    /\ quota = [msgs |-> MaxMsgs, timers |-> 0, ticks |-> 0]
    /\ MessageDealerInit("tools")

WiredSpec == WiredInit /\ [][WiredNext]_vars

\* --------------------- MessageRouter.register_timed_event, by statement
\* register_timed_event called by two threads while a third calls stop()
\* and unregister_timed_event. The method takes no lock, so its statements
\* interleave; the += of the counter is a read and a write.

\* message = {...}; event = threading.Event()
RegBegin(t, a) ==
    /\ gpc[t] = "idle"
    /\ nevt < quota.timers
    /\ nevt' = nevt + 1
    /\ gev' = [gev EXCEPT ![t] = nevt + 1]
    /\ tmsg' = [tmsg EXCEPT ![nevt + 1] = timer_message(a)]
    /\ gpc' = [gpc EXCEPT ![t] = "read"]
    /\ UNCHANGED <<quota, stop_mark, fileObj, sendLocal, dealerObj,
                   dealerThr, routerObj, routerThr, tpc, event, nticks,
                   elapsed, portalObj, senderThr, listenThr, callerThr,
                   history, gid, gtmp, returned>>

\* timer_id = self.timer_id_counter
RegRead(t) ==
    /\ gpc[t] = "read"
    /\ gid' = [gid EXCEPT ![t] = timer_id_counter]
    /\ gpc' = [gpc EXCEPT ![t] = "load"]
    /\ UNCHANGED <<quota, stop_mark, fileObj, sendLocal, dealerObj,
                   dealerThr, routerObj, routerThr, timerThr, portalObj,
                   senderThr, listenThr, callerThr, history, gev, gtmp,
                   returned>>

\* self.timer_id_counter += 1, the read
RegIncrLoad(t) ==
    /\ gpc[t] = "load"
    /\ gtmp' = [gtmp EXCEPT ![t] = timer_id_counter]
    /\ gpc' = [gpc EXCEPT ![t] = "store"]
    /\ UNCHANGED <<quota, stop_mark, fileObj, sendLocal, dealerObj,
                   dealerThr, routerObj, routerThr, timerThr, portalObj,
                   senderThr, listenThr, callerThr, history, gid, gev,
                   returned>>

\* self.timer_id_counter += 1, the write
RegIncrStore(t) ==
    /\ gpc[t] = "store"
    /\ timer_id_counter' = gtmp[t] + 1
    /\ gpc' = [gpc EXCEPT ![t] = "insert"]
    /\ UNCHANGED <<quota, stop_mark, fileObj, sendLocal, dealerObj,
                   dealerThr, recv_queue, send_queue, timed_events, running,
                   message_dealer, routerThr, timerThr, portalObj, senderThr,
                   listenThr, callerThr, history, gid, gev, gtmp, returned>>

\* self.timed_events[timer_id] = (interval, message, event)
RegInsert(t) ==
    /\ gpc[t] = "insert"
    /\ timed_events' = dict_set(timed_events, gid[t], tmsg[gev[t]], gev[t])
    /\ gpc' = [gpc EXCEPT ![t] = "start"]
    /\ UNCHANGED <<quota, stop_mark, fileObj, sendLocal, dealerObj,
                   dealerThr, recv_queue, send_queue, running,
                   timer_id_counter, message_dealer, routerThr, timerThr,
                   portalObj, senderThr, listenThr, callerThr, history, gid,
                   gev, gtmp, returned>>

\* threading.Thread(target=self._timed_event_handler, ...).start()
RegStart(t) ==
    /\ gpc[t] = "start"
    /\ tpc' = [tpc EXCEPT ![gev[t]] = "wait"]
    /\ gpc' = [gpc EXCEPT ![t] = "return"]
    /\ UNCHANGED <<quota, stop_mark, fileObj, sendLocal, dealerObj,
                   dealerThr, routerObj, routerThr, tmsg, event, nevt,
                   nticks, elapsed, portalObj, senderThr, listenThr,
                   callerThr, history, gid, gev, gtmp, returned>>

\* return timer_id
RegReturn(t) ==
    /\ gpc[t] = "return"
    /\ returned' = Append(returned, gid[t])
    /\ gpc' = [gpc EXCEPT ![t] = "idle"]
    /\ UNCHANGED <<quota, stop_mark, fileObj, sendLocal, dealerObj,
                   dealerThr, routerObj, routerThr, timerThr, portalObj,
                   senderThr, listenThr, callerThr, history, gid, gev, gtmp>>

RegNext ==
    \/ \E t \in Registrars :
          \/ \E a \in Actions : RegBegin(t, a)
          \/ RegRead(t) \/ RegIncrLoad(t) \/ RegIncrStore(t)
          \/ RegInsert(t) \/ RegStart(t) \/ RegReturn(t)
    \/ \E h \in 0..MaxTimers : CallUnregister(h)
    \/ CallStop \/ StopUnregister \/ StopReturn
    \/ \E k \in TimerIds : TimerExit(k)

RegInit ==
    /\ RouterInit
    /\ quota = [msgs |-> 0, timers |-> MaxTimers, ticks |-> 0]
    /\ MessageDealerInit(None)

RegSpec == RegInit /\ [][RegNext]_vars

\* ------------------------------------------------------------------ claims
IsPrefix(s, t) == Len(s) <= Len(t) /\ \A i \in 1..Len(s) : s[i] = t[i]

\* A log entry or queue item that is the copy of an inbound message made by
\* _single_response: it has the message_id of the inbound message and the
\* text the dealer returned.
IsInbound(m) == m.message_id # NoId /\ m.text = "hi"
IsReply(m) == m.message_id # NoId /\ m.text # "hi"

\* C1: an exception raised by the response generator is caught inside the
\* dispatch loop: the dispatch thread is never ended by it.
C1_GeneratorExceptionCaught == rpc # "crashed"

\* C2: a dispatch puts exactly one message on the outbound queue when the
\* generator returned a reply, and none when it returned None.
C2_OneReplyOrNone ==
    [][(rpc = "deal" /\ rpc' = "check")
        => Len(send_queue') = Len(send_queue)
                              + (IF response'.text = None THEN 0 ELSE 1)]_vars

\* C3: a timer task never puts a message on the outbound queue itself (its
\* message goes through the dispatch loop's response generation).
C3_TimerNeverPutsOutbound ==
    [][\A k \in TimerIds :
          (tpc[k] = "fire" /\ tpc'[k] = "wait") => send_queue' = send_queue]_vars

\* C4: a failed send does not end the sending loop.
C4_SendLoopSurvives == spc # "dead"

\* C5: after stop() the dispatch loop exits, whether it was waiting on the
\* inbound queue or handling a message, and stop() itself returns.
C5_StopEndsLoop ==
    /\ (~running /\ rpc \in {"check", "get", "deal"})
          ~> (rpc \in {"stopped", "crashed"})
    /\ (cpc = "stop_loop") ~> (cpc = "idle")

\* stop() has returned while the dispatch it interrupted is still in flight
C5_Witness == ~running /\ cpc = "idle" /\ rpc = "deal"

\* C6: when stop() returns, the registry is empty and the event of every
\* timer that was registered is set.
C6_StopCancelsAll ==
    [][StopReturn => (timed_events' = <<>>
                      /\ \A k \in 1..nevt : event'[k])]_vars

\* stop() is about to return, with every timer registered and still running
C6_Witness ==
    /\ cpc = "stop_loop" /\ ctodo = <<>>
    /\ nevt = MaxTimers
    /\ \A k \in TimerIds : event[k] /\ tpc[k] \in {"wait", "fire"}

\* C7: in the log, the reply to a direct-chat message comes after the entry
\* of that message.
C7_InboundLoggedFirst ==
    \A j \in 1..Len(log) :
        (IsReply(log[j]) /\ log[j].chat_type = "p2p")
            => \E i \in 1..(j - 1) :
                   /\ IsInbound(log[i])
                   /\ log[i].message_id = log[j].message_id

\* C8: a message whose send failed is in the log all the same: once the
\* sending thread has ended, every message it handed to the transport has
\* been logged.
C8_FailedSendLogged ==
    spc = "dead" => Len(SelectSeq(log, LAMBDA m : ~IsInbound(m))) = Len(handed)

\* C9: messages are handed to the transport in the order they were put on
\* the outbound queue, and replies in the order their messages were
\* dispatched.
C9_FifoOrder ==
    /\ IsPrefix(handed, enq_hist)
    /\ LET replies == SelectSeq(handed, IsReply)
       IN  IsPrefix([i \in 1..Len(replies) |-> replies[i].message_id],
                    dispatched)

\* two replies of one chat have been handed to the transport
C9_Witness ==
    \E i, j \in 1..Len(handed) :
        /\ i < j
        /\ IsReply(handed[i]) /\ IsReply(handed[j])
        /\ handed[i].chat_id = handed[j].chat_id
        /\ handed[i].message_id # handed[j].message_id

\* C10: unregister_timed_event with a handle that is not in the registry
\* (cancelled before, or never issued) raises nothing and changes nothing.
C10_UnregisterIdempotent ==
    [][\A h \in 0..MaxTimers :
          (CallUnregister(h) /\ ~dict_has(timed_events, h))
              => UNCHANGED vars]_vars

\* a handle was issued and cancelled, its timer has not ended yet, and the
\* caller is free to unregister it once more
C10_Witness ==
    /\ cpc = "idle"
    /\ \E h \in 0..(timer_id_counter - 1) :
          /\ ~dict_has(timed_events, h)
          /\ event[h + 1] /\ tpc[h + 1] # "done"

\* C11: a timed event that is unregistered before its first interval has
\* elapsed never puts a message on the outbound queue: when the event of a
\* timer is set and its wait has never timed out, and the same holds of every
\* timer registered with the same action string, no message of that action
\* was ever put on send_queue.
C11_CancelledTimerSilent ==
    \A k \in 1..nevt :
        (\A j \in 1..nevt :
            tmsg[j] = tmsg[k] => (event[j] /\ j \notin elapsed))
        => \A i \in 1..Len(enq_hist) :
               enq_hist[i] # action_then_response(tmsg[k])

\* A timer cancelled before its first interval has ended, while another
\* timer has put its message.
C11_Witness ==
    \E k \in 1..nevt :
        /\ event[k] /\ k \notin elapsed /\ tpc[k] = "done"
        /\ enq_hist # <<>>

\* C12: the dealer can be replaced at any time; a dispatch calls the dealer
\* that is installed when the dispatch invokes it, and the reply it puts is
\* that dealer's; the replacement itself touches neither the queues nor the
\* dispatch in progress.
C12_LastWriteWins ==
    [][/\ (rpc = "get" /\ rpc' = "deal") => dealer_call' = message_dealer
       /\ (rpc = "deal" /\ rpc' = "check" /\ dealer_call = "echo")
             => /\ response'.text = Echo(msg.text)
                /\ send_queue' = Append(send_queue, response')
       /\ (message_dealer' # message_dealer)
             => UNCHANGED <<recv_queue, send_queue, rpc, msg, dealer_call,
                            response, dispatched>>]_vars

\* The dealer was replaced while a dispatch is in progress, and the dealer
\* now installed is called by the next dispatch.
C12_Witness ==
    /\ rpc = "deal" /\ dealer_call = "custom" /\ message_dealer = "custom"
    /\ \E i \in 1..Len(enq_hist) : enq_hist[i].text = Echo("hi")
\* The history of chat c in h: the empty list when c is not a key.
HistoryOf(h, c) == IF c \in DOMAIN h THEN h[c] ELSE <<>>

\* C13: deal_message on a message for which is_need_to_reply is false
\* appends the message to the history of its chat, returns None and does
\* not call the language model.
C13_NoReplyRecorded ==
    [][(ncalls' = ncalls + 1 /\ dop' = "deal" /\ ~Truthy(dneed'))
          => /\ HistoryOf(chat_history', dmsg'.chat_id)
                  = Append(HistoryOf(chat_history, dmsg'.chat_id), dmsg')
             /\ dout' = "none"
             /\ dret' = NoJson
             /\ dpc' = "idle"]_vars

\* A group message that does not mention the bot was recorded after
\* another message of the chat, without a reply.
C13_Witness ==
    /\ dop = "deal" /\ dout = "none" /\ dmsg.chat_type = "group"
    /\ dneed = "False"
    /\ Len(HistoryOf(chat_history, dmsg.chat_id)) >= 2

\* C14: deal_message on a message that needs a reply, when the call of the
\* language model returns, extends the history of the message's chat by two
\* entries, the message and then the reply, and returns the reply.
C14_ReplyRecorded ==
    [][(dpc = "llm" /\ dout' = "reply")
          => /\ HistoryOf(chat_history', dmsg.chat_id)
                  = HistoryOf(chat_history, dmsg.chat_id) \o <<dmsg, dret'>>
             /\ dret'.text = "ai"
             /\ dret'.sender_id = BotName
             /\ dret'.chat_id = dmsg.chat_id]_vars

\* A reply was recorded after earlier entries of the same chat.
C14_Witness ==
    /\ dout = "reply"
    /\ Len(HistoryOf(chat_history, dmsg.chat_id)) >= 4

\* C15: is_need_to_reply is true for every message of a direct chat,
\* whatever its mentions.
C15_DirectAlwaysReplied ==
    (dop = "deal" /\ dmsg.chat_type = "p2p") => dneed = "True"

\* A direct message whose first mention is somebody else.
C15_Witness ==
    /\ dop = "deal" /\ dmsg.chat_type = "p2p"
    /\ dmsg.mentions = <<"Bob", "Kiwi">>

\* C16: for a group message is_need_to_reply is true only if the bot's name
\* is the display name of the first mention, compared exactly; it is false
\* when there is no mention or the first mention is someone else.
C16_GroupNeedsMention ==
    (dop = "deal" /\ dmsg.chat_type = "group")
        => /\ dneed \in {"True", "False"}
           /\ dneed = "True"
                 <=> (dmsg.mentions # <<>> /\ Head(dmsg.mentions) = "Kiwi")

\* A group message that mentions the bot second, and one that mentions it
\* in lower case, were not replied to.
C16_Witness ==
    /\ dop = "deal" /\ dmsg.chat_type = "group" /\ dout = "none"
    /\ dmsg.mentions = <<"kiwi">>
    /\ \E i \in 1..Len(HistoryOf(chat_history, "oc_g")) :
          chat_history["oc_g"][i].mentions = <<"Bob", "Kiwi">>

\* C17: for a message whose chat_type is neither p2p nor group,
\* is_need_to_reply does not raise and the message is not replied to:
\* deal_message returns None, without building a reply.
C17_OtherChatNoReply ==
    (dop = "deal" /\ dmsg.chat_type \notin {"p2p", "group"})
        => /\ dneed = None
           /\ dout = "none"
           /\ dret = NoJson
           /\ dpc = "idle"

\* A message of a third chat type that mentions the bot was dealt with.
C17_Witness ==
    /\ dop = "deal" /\ dmsg.chat_type = "topic_group"
    /\ dmsg.mentions = <<"Kiwi">>
    /\ dout = "none"

\* The number of messages in a window over n messages.
WindowLen(n) == IF n < 3 THEN n ELSE 3

\* C18: the window of a message is the last min(3, N) of the N messages in
\* the history of its chat, in their order; it is empty for a chat without
\* history, and max_num does not change it.
C18_WindowLastThree ==
    (dop = "window" \/ dpc = "llm")
        => LET hist == HistoryOf(chat_history, dmsg.chat_id)
               n == Len(hist)
           IN  /\ Len(dwin) = WindowLen(n)
               /\ \A i \in 1..Len(dwin) : dwin[i] = hist[n - Len(dwin) + i]

\* A window of three messages out of more, asked for with max_num = 5.
C18_Witness ==
    /\ dop = "window" /\ dmax = 5
    /\ Len(HistoryOf(chat_history, dmsg.chat_id)) > 3
    /\ Len(dwin) = 3
\* C19: when the dealer raises, the exception leaves the dispatch, no reply
\* to the message it was called for is put on send_queue, and that message is
\* not dispatched again: no message_id is dispatched twice, and once the
\* exception has left run the message is neither back on recv_queue nor
\* answered on send_queue.
C19_FailedDispatchDropped ==
    /\ \A i, j \in 1..Len(dispatched) :
          i # j => dispatched[i] # dispatched[j]
    /\ rpc = "crashed"
          => /\ \A i \in 1..Len(enq_hist) :
                   enq_hist[i].message_id # msg.message_id
             /\ \A i \in 1..Len(recv_queue) : recv_queue[i] # msg

\* The dealer raised on the second message, after the first was answered.
C19_Witness ==
    /\ rpc = "crashed"
    /\ Len(dispatched) = 2
    /\ enq_hist # <<>>

\* C20: a reply carries the message_id of the message it answers if and only
\* if that message is a group message (that mentioned the bot); the reply to
\* a direct message has no message_id.
C20_ThreadedOnlyInGroups ==
    [][(rpc = "deal" /\ rpc' = "check")
          => (response'.message_id # NoId <=> msg.chat_type = "group")]_vars
\* The messages of chat c among those written to the log, in their order.
LoggedOf(c) == SelectSeq(log, LAMBDA m : m.chat_id = c)

\* C21: replaying the log gives back what was appended: a load of the log
\* file succeeds, and the history it builds has a list for each chat that
\* has a message in the log and for no other, holding the chat's messages,
\* each once, in the order they were written.
C21_ReplayRoundTrip ==
    [][(ncalls' = ncalls + 1 /\ dop' = "load")
          => /\ dout' = "loaded"
             /\ DOMAIN chat_history' = {log[i].chat_id : i \in 1..Len(log)}
             /\ \A c \in DOMAIN chat_history' :
                   chat_history'[c] = LoggedOf(c)]_vars

\* A replay of three messages, two of one chat, one of which holds the
\* text that the repair looks for.
C21_Witness ==
    /\ dop = "load" /\ dout = "loaded"
    /\ Len(log) = 3
    /\ "oc_p" \in DOMAIN chat_history /\ Len(chat_history["oc_p"]) = 2
    /\ chat_history["oc_p"][1].text = "}\n{"
    /\ chat_history = get_historical_msg(log_file).history

\* C22: the listener logging an inbound message and the sending loop
\* logging an outbound one are never both inside the write of an append:
\* whoever is between acquiring the lock and releasing it holds the lock,
\* and the other thread is not there.
C22_AppendsExclusive ==
    /\ ~(lpc \in {"write", "release"} /\ spc \in {"write", "release"})
    /\ lpc \in {"write", "release"} => lock = "listener"
    /\ spc \in {"write", "release"} => lock = "sender"

\* The sending loop is inside the write of a reply while the listener, with
\* the next inbound message in hand, waits for the lock.
C22_Witness ==
    /\ spc = "write" /\ lock = "sender" /\ IsReply(smsg)
    /\ lpc = "log" /\ IsInbound(lmsg)

\* C23: every inbound message the transport delivered is in the log once
\* the listener's callback has returned, and every outbound message the
\* sending loop handed to the transport, a timer's message included, is in
\* the log once the iteration is over.
C23_EverythingLogged ==
    /\ lpc = "idle" => Len(SelectSeq(log, IsInbound)) = nrecv
    /\ \A i \in 1..Len(handed) :
           \E j \in 1..Len(log) : log[j] = handed[i]

\* C24: the step of the dispatch loop that builds the reply leaves the
\* message it answers as it was, and the step of a timer that builds its
\* message leaves the stored message as it was, in the timer's thread and
\* in the registry.
C24_AnsweredMessageUntouched ==
    [][/\ (rpc = "deal" /\ rpc' # "deal") => msg' = msg
       /\ \A k \in TimerIds :
              (tpc[k] \in {"fire", "sleep"} /\ tpc'[k] = "wait")
                  => tmsg'[k] = tmsg[k] /\ timed_events' = timed_events]_vars

\* C25: a dealer constructed without a transport tool (tool_dict None)
\* does not fail on a message that needs a reply: the call does not raise
\* before the language model is reached.
C25_NoToolsNoFailure ==
    (dop = "deal" /\ Truthy(dneed) /\ tool_dict = None /\ dpc = "idle")
        => dout # "raise"

Lifecycle(pc, flag) ==
    IF pc = "created" THEN 0
    ELSE IF pc \in {"stopped", "crashed"} THEN 3
    ELSE IF flag THEN 1 ELSE 2

\* C27: the lifecycle only moves forward; RUNNING is entered from CREATED
\* by start() alone and left by stop()'s write of running alone, and a
\* router that is STOPPED dispatches nothing more.
C27_LifecycleForward ==
    [][LET old == Lifecycle(rpc, running)
           new == Lifecycle(rpc', running')
       IN  /\ new >= old
           /\ (new = 1 /\ old # 1)
                  => (rpc = "created" /\ rpc' = "check" /\ cpc = "idle")
           /\ (old = 1 /\ new # 1) => (running /\ ~running')
           /\ old = 3 => dispatched' = dispatched]_vars

\* C28: History only grows at its end: in every step, every chat that has
\* a History keeps it, and the chat's sequence before the step is a prefix
\* of the one after it.
C28_HistoryAppendOnly ==
    [][\A c \in DOMAIN chat_history :
           /\ c \in DOMAIN chat_history'
           /\ IsPrefix(chat_history[c], chat_history'[c])]_vars

\* A chat's History holds a message that got no reply, then a message and
\* the reply to it: entries were appended to a History that was not empty.
C28_Witness ==
    \E c \in DOMAIN chat_history :
        /\ Len(chat_history[c]) = 3
        /\ chat_history[c][3].sender_id = BotName
        /\ chat_history[c][1].sender_id # BotName
        /\ dop = "deal" /\ dout = "reply"

\* C29: at most one call of the response generator is in progress, and it
\* is the dispatch loop's: no thread but the loop is ever inside a call of
\* message_dealer, and the loop is inside one only between taking a message
\* and putting its reply.
C29_OneGeneratorCall ==
    /\ Cardinality(in_call) <= 1
    /\ in_call \subseteq {"run"}
    /\ in_call = {"run"} <=> rpc = "deal"

\* The loop is inside the dealer while a timer is about to put its message
\* and the sending loop has a message to take: three threads at work, one
\* of them in the generator.
C29_Witness ==
    /\ rpc = "deal" /\ in_call = {"run"}
    /\ \E k \in TimerIds : tpc[k] = "fire"
    /\ spc = "get" /\ send_queue # <<>>

\* The number of messages equal to m that were ever put on send_queue.
PutCount(h, m) == Len(SelectSeq(h, LAMBDA x : x = m))

\* C30: once unregister_timed_event has set a timer's event, the event
\* stays set and no interval elapses for that timer any more: it never
\* again goes on to put a message; and when every timer of an action is
\* cancelled and none of them has a put pending from an interval that
\* elapsed before, no further message of that action is put.
C30_NoPutAfterCancel ==
    [][\A k \in 1..nevt :
          /\ event[k] =>
                /\ event'[k]
                /\ tpc'[k] = "fire" => tpc[k] = "fire"
                /\ k \in elapsed' => k \in elapsed
          /\ (\A j \in 1..nevt :
                 tmsg[j] = tmsg[k] => (event[j] /\ tpc[j] # "fire"))
                => PutCount(enq_hist', action_then_response(tmsg[k]))
                     = PutCount(enq_hist, action_then_response(tmsg[k]))]_vars

\* A timer that has put a message was cancelled afterwards and its thread
\* has ended, while the other timer goes on.
C30_Witness ==
    \E k \in 1..nevt :
        /\ event[k] /\ k \in elapsed /\ tpc[k] = "done"
        /\ cpc = "idle"
        /\ \E j \in 1..nevt : ~event[j] /\ tpc[j] = "fire"

\* C31: when everything that arrived has been logged and dispatched and
\* every reply has been sent and logged, the log holds, for every chat, the
\* chat's messages in the order in which the History holds them.
C31_LogOrderIsHistoryOrder ==
    (/\ lpc = "idle" /\ recv_queue = <<>> /\ rpc \in {"check", "get"}
     /\ send_queue = <<>> /\ spc = "get"
     /\ Len(log) = nrecv + Len(handed))
        => \A c \in Chats :
               LoggedOf(c) = [i \in 1..Len(HistoryOf(chat_history, c)) |->
                                 to_queue_item(HistoryOf(chat_history, c)[i])]

\* C32: once stop() has returned and no call of register_timed_event is
\* in progress, every timer thread that was started has its event set.
C32_NoTimerOutlivesStop ==
    (~running /\ cpc = "idle" /\ \A t \in Registrars : gpc[t] = "idle")
        => \A k \in TimerIds : tpc[k] # "none" => event[k]

\* C33: the handles that register_timed_event has returned are pairwise
\* different, and every timer whose registration has returned and whose
\* event is not set has an entry of its own in the registry, under which
\* it can be cancelled.
C33_HandlesUnique ==
    /\ \A i, j \in 1..Len(returned) : i # j => returned[i] # returned[j]
    /\ \A k \in TimerIds :
          (/\ tpc[k] # "none" /\ ~event[k]
           /\ \A t \in Registrars : gev[t] = k => gpc[t] = "idle")
             => \E i \in 1..Len(timed_events) : timed_events[i].event = k

\* The message_ids the dispatch loop has dequeued.
DispatchedIds == {dispatched[i] : i \in 1..Len(dispatched)}

\* C34: after stop() was called the dispatch loop dequeues at most one
\* more message; once the loop has exited, the messages left on recv_queue
\* were never dispatched, and no reply was ever put for a message that was
\* not dispatched.
C34_AtMostOneAfterStop ==
    /\ stop_mark # <<>> => Len(dispatched) <= stop_mark[1] + 1
    /\ rpc = "stopped" =>
          \A i \in 1..Len(recv_queue) :
              recv_queue[i].message_id \notin DispatchedIds
    /\ \A i \in 1..Len(enq_hist) :
          IsReply(enq_hist[i]) => enq_hist[i].message_id \in DispatchedIds

\* stop() was called while the loop waited in its get; the loop took the
\* message that arrived next, answered it and exited, and a message that
\* arrived later is left on recv_queue.
C34_Witness ==
    /\ stop_mark = <<0>> /\ Len(dispatched) = 1
    /\ rpc = "stopped"
    /\ recv_queue # <<>>
    /\ \E i \in 1..Len(enq_hist) : IsReply(enq_hist[i])

\* C35: a call of deal_message in which the language model fails leaves
\* the History as it was: neither the step that calls the model nor the
\* step in which the call raises changes any chat's list.
C35_FailureLeavesHistory ==
    [][(dpc' = "llm" \/ dout' = "raise") => chat_history' = chat_history]_vars

\* The model has failed on the second message of a chat: the History holds
\* the first message and its reply and not the second message.
C35_Witness ==
    /\ dop = "deal" /\ dout = "raise" /\ dpc = "idle" /\ tool_dict # None
    /\ dmsg.chat_id \in DOMAIN chat_history
    /\ Len(chat_history[dmsg.chat_id]) = 2
    /\ \A i \in 1..2 : chat_history[dmsg.chat_id][i] # dmsg

\* C36: a timer whose event has been set, by unregister_timed_event or by
\* stop(), eventually ends its thread when the timer threads are scheduled
\* fairly; and from the moment the event is set the thread never again
\* finds an interval elapsed, so that it puts at most the one message of
\* an interval that had elapsed before.
C36_CancelledTimerEnds ==
    /\ \A k \in TimerIds :
          (event[k] /\ tpc[k] # "none") ~> (tpc[k] = "done")
    /\ [][\A k \in TimerIds :
             (event[k] /\ tpc[k] = "wait") => tpc'[k] \in {"wait", "done"}]_vars

\* A timer was cancelled between the end of an interval and its put: it
\* has its one more message to put.
C36_Witness ==
    \E k \in TimerIds :
        /\ event[k] /\ tpc[k] = "fire"
        /\ ~dict_has(timed_events, k - 1)

\* C37: a step of deal_message on a message of chat c leaves every other
\* chat as it was: no other chat gets a key, loses its key, or has its
\* History changed.
C37_OnlyOwnChatChanges ==
    [][\A c \in DealerChats :
          c # dmsg'.chat_id =>
              /\ c \in DOMAIN chat_history' <=> c \in DOMAIN chat_history
              /\ HistoryOf(chat_history', c) = HistoryOf(chat_history, c)]_vars

\* A message of one chat was answered while another chat has a History of
\* its own.
C37_Witness ==
    /\ dop = "deal" /\ dout = "reply"
    /\ dmsg.chat_id \in DOMAIN chat_history
    /\ Len(chat_history[dmsg.chat_id]) = 2
    /\ \E c \in DOMAIN chat_history :
          c # dmsg.chat_id /\ Len(chat_history[c]) = 1

====
